---- MODULE Spec2Model ----
(***************************************************************************)
(* Transaction analytics service: the report handlers of                   *)
(* app/routers/reports.py and app/routers/country_reports.py, the          *)
(* TransactionAnalytics calculator of app/utils/analytics.py and the       *)
(* user->country loader of app/utils/data_loader.py.                       *)
(*                                                                         *)
(* The transaction table is a bag of rows (the primary key is read by no   *)
(* aggregate other than COUNT).  Money is kept in cents (Numeric(10, 2));  *)
(* an average is kept as an exact fraction until the code rounds it.       *)
(* Calendar dates are day numbers 1..MaxDay.                               *)
(***************************************************************************)
EXTENDS Integers, Sequences, FiniteSets, TLC

VARIABLES store, csv_file, ranking_input, enum_lookup, extract_value,
          row_attribute, earlier, response

vars == <<store, csv_file, ranking_input, enum_lookup, extract_value,
         row_attribute, earlier, response>>

---------------------------------------------------------------------------
(* Bounds *)

MaxTx == 2
MaxDay == 2
DaysPerMonth == 2
MaxUniformTx == 3
MaxTopN == 2
MaxCountries == 3
MaxTrendDay == 5
MonthsPerYear == 2
MaxTrendCountTx == 5
MaxCsvRows == 2

Days == 1..MaxDay

---------------------------------------------------------------------------
(* app/models.py *)

TransactionStatusValues == {"successful", "failed"}
TransactionTypeValues == {"payment", "invoice"}

\* class TransactionStatus(str, Enum) / class TransactionType(str, Enum),
\* where Enum is the name imported from sqlalchemy.  For a member value the
\* call TransactionStatus(value) yields the value.  For a value that is no
\* member the outcome depends on what Enum does in the installed build: an
\* enumeration lookup raises ValueError ("raises"), a type constructor
\* returns an object that compares as the string ("constructs").
EnumLookups == {"raises", "constructs"}

TransactionStatus(value) ==
    IF value \in TransactionStatusValues \/ enum_lookup = "constructs"
    THEN [ok |-> TRUE, member |-> value]
    ELSE [ok |-> FALSE, member |-> "ValueError"]

TransactionType(value) ==
    IF value \in TransactionTypeValues \/ enum_lookup = "constructs"
    THEN [ok |-> TRUE, member |-> value]
    ELSE [ok |-> FALSE, member |-> "ValueError"]

\* str.lower() on the filter strings the model draws.
Lower(s) ==
    CASE s = "ALL" -> "all"
      [] s = "FAILED" -> "failed"
      [] s = "SUCCESSFUL" -> "successful"
      [] s = "PAYMENT" -> "payment"
      [] s = "INVOICE" -> "invoice"
      [] OTHER -> s

Amounts == {5000, 10000}
UserIds == {1, 2, 3}

\* A row of the transactions table.
Transaction == [user_id : UserIds, amount : Amounts,
                status : TransactionStatusValues, type : TransactionTypeValues,
                transaction_date : Days]

---------------------------------------------------------------------------
(* The table as a bag: rows |-> multiplicity *)

EmptyTable == << >>

AddRow(db, r) ==
    IF r \in DOMAIN db THEN [db EXCEPT ![r] = @ + 1] ELSE db @@ (r :> 1)

RECURSIVE TablesUpTo(_, _)
TablesUpTo(rows, n) ==
    IF n = 0 THEN {EmptyTable}
    ELSE LET prev == TablesUpTo(rows, n - 1)
         IN  prev \cup {AddRow(db, r) : db \in prev, r \in rows}

\* query.filter(...): the rows satisfying the predicate
Where(db, P(_)) == [r \in {x \in DOMAIN db : P(x)} |-> db[r]]

RECURSIVE CountOver(_, _)
CountOver(db, rows) ==
    IF rows = {} THEN 0
    ELSE LET r == CHOOSE x \in rows : TRUE
         IN  db[r] + CountOver(db, rows \ {r})

RECURSIVE SumOver(_, _)
SumOver(db, rows) ==
    IF rows = {} THEN 0
    ELSE LET r == CHOOSE x \in rows : TRUE
         IN  db[r] * r.amount + SumOver(db, rows \ {r})

\* func.count(Transaction.id)
SqlCount(db) == CountOver(db, DOMAIN db)

\* func.coalesce(func.sum(Transaction.amount), 0)
SqlSum(db) == SumOver(db, DOMAIN db)

\* func.coalesce(func.min(Transaction.amount), 0)
SqlMin(db) ==
    IF DOMAIN db = {} THEN 0
    ELSE CHOOSE a \in {r.amount : r \in DOMAIN db} :
            \A r \in DOMAIN db : a <= r.amount

\* func.coalesce(func.max(Transaction.amount), 0)
SqlMax(db) ==
    IF DOMAIN db = {} THEN 0
    ELSE CHOOSE a \in {r.amount : r \in DOMAIN db} :
            \A r \in DOMAIN db : a >= r.amount

\* func.coalesce(func.avg(Transaction.amount), 0), as the fraction num/den
SqlAvg(db) ==
    IF DOMAIN db = {} THEN [num |-> 0, den |-> 1]
    ELSE [num |-> SqlSum(db), den |-> SqlCount(db)]

---------------------------------------------------------------------------
(* Request parameters *)

NoDate == [form |-> "none", day |-> 0]

\* A date query string: zero-padded YYYY-MM-DD ("iso"), a date written
\* without zero padding such as 2024-1-5 ("unpadded"), text that is no date
\* ("malformed"), or the empty string.
DateStrings ==
    [form : {"iso", "unpadded"}, day : Days]
        \cup {[form |-> "malformed", day |-> 0], [form |-> "empty", day |-> 0]}

\* _parse_date: None for a missing or empty string; strptime("%Y-%m-%d")
\* accepts the padded and the unpadded spelling and raises ValueError
\* otherwise, which becomes HTTPException(400).
_parse_date(date_str) ==
    IF date_str.form \in {"none", "empty"}
    THEN [error |-> FALSE, date |-> 0]
    ELSE IF date_str.form \in {"iso", "unpadded"}
         THEN [error |-> FALSE, date |-> date_str.day]
         ELSE [error |-> TRUE, date |-> 0]

\* date.today(): no transaction is dated after the day the requests are served.
Today == MaxDay

\* date.today().replace(day=1)
FirstOfMonth(d) == d - ((d - 1) % DaysPerMonth)

HTTPException(op, req, code, detail) ==
    [op |-> op, req |-> req, code |-> code, detail |-> detail, body |-> << >>]

Ok(op, req, body) ==
    [op |-> op, req |-> req, code |-> 200, detail |-> "", body |-> body]

NoResponse ==
    [op |-> "none", req |-> << >>, code |-> 0, detail |-> "", body |-> << >>]

---------------------------------------------------------------------------
(* Arithmetic helpers *)

\* round(n / d) to the nearest integer for d > 0, ties to even (Python round).
RoundDiv(n, d) ==
    LET q == n \div d
        r == n - q * d
    IN  IF 2 * r < d THEN q
        ELSE IF 2 * r > d THEN q + 1
        ELSE IF q % 2 = 0 THEN q ELSE q + 1

None == [defined |-> FALSE, value |-> 0]
Some(v) == [defined |-> TRUE, value |-> v]

\* date.isoformat()
IsoFormat(d) == [form |-> "iso", day |-> d]

\* Variant: the ORDER BY clause written with DESC.
RECURSIVE AscendingReversed(_)
AscendingReversed(S) ==
    IF S = {} THEN << >>
    ELSE LET m == CHOOSE x \in S : \A y \in S : x >= y
         IN  <<m>> \o AscendingReversed(S \ {m})

\* The sequence of the members of a set of integers in ascending order
\* (ORDER BY date).
RECURSIVE Ascending(_)
Ascending(S) ==
    IF S = {} THEN << >>
    ELSE LET m == CHOOSE x \in S : \A y \in S : x <= y
         IN  <<m>> \o Ascending(S \ {m})

---------------------------------------------------------------------------
(* Result rows *)

\* What result.count reads on a row of a query that labels a column 'count':
\* the labelled column where the row keeps its labels as instance attributes,
\* the method count of the tuple where the row is a sequence that resolves
\* labels only for names it does not define itself.
RowAttributes == {"column", "method"}

\* The stand-in for the bound method: a value that is no count.
BoundMethod == -1

\* result.count
RowCount(n) == IF row_attribute = "column" THEN n ELSE BoundMethod

---------------------------------------------------------------------------
(* app/routers/reports.py *)

\* The percent_change column of _get_daily_breakdown: element i is the change
\* of bucket i against bucket i-1, rounded to 2 decimals (in hundredths of a
\* percent), or None.
\* Variant: a change of 0 reported against a previous bucket of value 0.
PercentChangeZeroBase(previous_amount, current_amount) ==
    IF previous_amount.defined
    THEN IF previous_amount.value > 0
         THEN Some(RoundDiv((current_amount - previous_amount.value) * 10000,
                            previous_amount.value))
         ELSE Some(0)
    ELSE None

PercentChange(previous_amount, current_amount) ==
    IF previous_amount.defined /\ previous_amount.value > 0
    THEN Some(RoundDiv((current_amount - previous_amount.value) * 10000,
                       previous_amount.value))
    ELSE None

_get_daily_breakdown(db, start_date, end_date, status, type) ==
    LET base == Where(db, LAMBDA r :
                    /\ r.transaction_date >= start_date
                    /\ r.transaction_date <= end_date
                    /\ r.status = "successful")
        byStatus == IF status # "all"
                    THEN Where(base, LAMBDA r :
                            r.status = TransactionStatus(Lower(status)).member)
                    ELSE base
        query == IF type # "all"
                 THEN Where(byStatus, LAMBDA r :
                         r.type = TransactionType(Lower(type)).member)
                 ELSE byStatus
        dates == Ascending({r.transaction_date : r \in DOMAIN query})
        Group(d) == Where(query, LAMBDA r : r.transaction_date = d)
        Amount(i) == SqlSum(Group(dates[i]))
    IN  [i \in 1..Len(dates) |->
            [date |-> IsoFormat(dates[i]),
             transaction_count |-> RowCount(SqlCount(Group(dates[i]))),
             total_amount |-> Amount(i),
             percent_change |->
                PercentChange(IF i = 1 THEN None ELSE Some(Amount(i - 1)),
                              Amount(i))]]

\* Variant: the status restriction left out, the amount taken over every
\* matching row.
ReportSuccessfulQueryUnrestricted(query) == query

\* Calculate total amount (only for successful transactions)
ReportSuccessfulQuery(query) == Where(query, LAMBDA r : r.status = "successful")

\* Variant: the average taken over every matching row while the minimum and
\* the maximum stay on the successful ones.
ReportAverageOverAll(query) == SqlAvg(query)

\* avg_amount = successful_query.with_entities(func.avg(Transaction.amount))
ReportAverage(query) == SqlAvg(ReportSuccessfulQuery(query))

ReportOptionalMetrics(req, query) ==
    LET total_count == SqlCount(query)
        successful_query == ReportSuccessfulQuery(query)
        avg == IF req.include_avg /\ total_count > 0
               THEN [average_amount |-> ReportAverage(query)] ELSE << >>
        min == IF req.include_min /\ total_count > 0
               THEN [minimum_amount |-> SqlMin(successful_query)] ELSE << >>
        max == IF req.include_max /\ total_count > 0
               THEN [maximum_amount |-> SqlMax(successful_query)] ELSE << >>
    IN  avg @@ min @@ max

get_transaction_report(db, now, req) ==
    LET op == "report"
        ps == _parse_date(req.start_date)
        pe == _parse_date(req.end_date)
        parsed_start_date == IF ps.date # 0 THEN ps.date ELSE FirstOfMonth(now)
        parsed_end_date == IF pe.date # 0 THEN pe.date ELSE now
        status_enum == TransactionStatus(Lower(req.status))
        type_enum == TransactionType(Lower(req.type))
        dated == Where(db, LAMBDA r :
                    /\ r.transaction_date >= parsed_start_date
                    /\ r.transaction_date <= parsed_end_date)
        byStatus == IF req.status # "all"
                    THEN Where(dated, LAMBDA r : r.status = status_enum.member)
                    ELSE dated
        query == IF req.type # "all"
                 THEN Where(byStatus, LAMBDA r : r.type = type_enum.member)
                 ELSE byStatus
        total_count == SqlCount(query)
        total_amount == SqlSum(ReportSuccessfulQuery(query))
        metrics == [total_transactions |-> total_count,
                    total_amount |-> total_amount]
                       @@ ReportOptionalMetrics(req, query)
        core == [period |-> [start_date |-> IsoFormat(parsed_start_date),
                             end_date |-> IsoFormat(parsed_end_date)],
                 filters |-> [status |-> req.status, type |-> req.type],
                 metrics |-> metrics]
        daily == IF req.include_daily_shift
                 THEN [daily_breakdown |->
                         _get_daily_breakdown(db, parsed_start_date,
                                              parsed_end_date, req.status, req.type)]
                 ELSE << >>
    IN  IF ps.error \/ pe.error
        THEN HTTPException(op, req, 400, "Invalid date format")
        ELSE IF parsed_start_date > parsed_end_date
        THEN HTTPException(op, req, 400, "Start date cannot be after end date")
        ELSE IF req.status # "all" /\ ~status_enum.ok
        THEN HTTPException(op, req, 400, "Invalid status")
        ELSE IF req.type # "all" /\ ~type_enum.ok
        THEN HTTPException(op, req, 400, "Invalid type")
        ELSE Ok(op, req, core @@ daily)


---------------------------------------------------------------------------
(* app/utils/analytics.py *)

Raised(op, req, exception) == HTTPException(op, req, 500, exception)

\* Variant: base_filters without the type condition.
AnalyticsBaseFiltersAnyType(db, start_date, end_date, status_filter, type_filter) ==
    LET dated == Where(db, LAMBDA r :
                    /\ r.transaction_date >= start_date
                    /\ r.transaction_date <= end_date)
    IN  IF status_filter # "all"
        THEN Where(dated, LAMBDA r :
                r.status = TransactionStatus(Lower(status_filter)).member)
        ELSE dated

\* Variant: base_filters without the status condition.
AnalyticsBaseFiltersAnyStatus(db, start_date, end_date, status_filter, type_filter) ==
    LET dated == Where(db, LAMBDA r :
                    /\ r.transaction_date >= start_date
                    /\ r.transaction_date <= end_date)
    IN  IF type_filter # "all"
        THEN Where(dated, LAMBDA r :
                r.type = TransactionType(Lower(type_filter)).member)
        ELSE dated

\* base_filters of get_comprehensive_metrics and get_top_transactions: the
\* date range, then the status and the type filter unless "all".
AnalyticsBaseFilters(db, start_date, end_date, status_filter, type_filter) ==
    LET dated == Where(db, LAMBDA r :
                    /\ r.transaction_date >= start_date
                    /\ r.transaction_date <= end_date)
        byStatus == IF status_filter # "all"
                    THEN Where(dated, LAMBDA r :
                            r.status = TransactionStatus(Lower(status_filter)).member)
                    ELSE dated
    IN  IF type_filter # "all"
        THEN Where(byStatus, LAMBDA r :
                r.type = TransactionType(Lower(type_filter)).member)
        ELSE byStatus

\* Whether building the filters raises ValueError.
AnalyticsFilterError(status_filter, type_filter) ==
    \/ status_filter # "all" /\ ~TransactionStatus(Lower(status_filter)).ok
    \/ type_filter # "all" /\ ~TransactionType(Lower(type_filter)).ok

_get_type_breakdown(base) ==
    LET payment == Where(base, LAMBDA r : r.type = "payment")
        invoice == Where(base, LAMBDA r : r.type = "invoice")
    IN  [payment |-> [count |-> RowCount(SqlCount(payment)),
                      amount |-> SqlSum(payment)],
         invoice |-> [count |-> RowCount(SqlCount(invoice)),
                      amount |-> SqlSum(invoice)]]

\* basic_query: the aggregates over base_filters
MetricsTotalAmount(base) == SqlSum(base)

\* Variant: failed_filters built with the status of successful_filters.
MetricsFailedAsSuccessful(base) == Where(base, LAMBDA r : r.status = "successful")

\* successful_query / failed_query: base_filters plus the status
MetricsSuccessful(base) == Where(base, LAMBDA r : r.status = "successful")
MetricsFailed(base) == Where(base, LAMBDA r : r.status = "failed")

\* Variant: the rate cut off after 2 decimals instead of rounded.
SuccessRateTruncated(successful_count, total_transactions) ==
    IF total_transactions > 0
    THEN (successful_count * 10000) \div total_transactions
    ELSE 0

\* success_rate, rounded to 2 decimals, in hundredths of a percent
SuccessRate(successful_count, total_transactions) ==
    IF total_transactions > 0
    THEN RoundDiv(successful_count * 10000, total_transactions)
    ELSE 0

get_comprehensive_metrics(db, req) ==
    LET op == "get_comprehensive_metrics"
        base == AnalyticsBaseFilters(db, req.start_date, req.end_date,
                                     req.status_filter, req.type_filter)
        successful == MetricsSuccessful(base)
        failed == MetricsFailed(base)
        total_transactions == SqlCount(base)
    IN  IF AnalyticsFilterError(req.status_filter, req.type_filter)
        THEN Raised(op, req, "ValueError")
        ELSE Ok(op, req,
                [total_transactions |-> total_transactions,
                 total_amount |-> MetricsTotalAmount(base),
                 average_amount |-> SqlAvg(base),
                 minimum_amount |-> SqlMin(base),
                 maximum_amount |-> SqlMax(base),
                 successful_transactions |-> SqlCount(successful),
                 successful_amount |-> SqlSum(successful),
                 failed_transactions |-> SqlCount(failed),
                 success_rate |-> SuccessRate(SqlCount(successful),
                                              total_transactions),
                 type_breakdown |-> _get_type_breakdown(base)])

\* base_filters of get_daily_trends and get_monthly_comparison: the date
\* range and status successful; a status filter other than "all" replaces the
\* status condition, a type filter other than "all" is added.
AnalyticsTrendFilters(db, start_date, end_date, status_filter, type_filter) ==
    LET wanted == IF status_filter # "all"
                  THEN TransactionStatus(Lower(status_filter)).member
                  ELSE "successful"
        base == Where(db, LAMBDA r :
                    /\ r.transaction_date >= start_date
                    /\ r.transaction_date <= end_date
                    /\ r.status = wanted)
    IN  IF type_filter # "all"
        THEN Where(base, LAMBDA r :
                r.type = TransactionType(Lower(type_filter)).member)
        ELSE base

\* get_daily_trends: one bucket per date that holds a row, ORDER BY date; the
\* changes against the previous bucket are rounded to 2 decimals (kept in
\* hundredths of a percent) or None.  The second pass of the loop compares
\* previous_count, the result.count of the first, with 0, which raises
\* TypeError for a bound method.
get_daily_trends(db, req) ==
    LET op == "get_daily_trends"
        base == AnalyticsTrendFilters(db, req.start_date, req.end_date,
                                      req.status_filter, req.type_filter)
        dates == Ascending({r.transaction_date : r \in DOMAIN base})
        Group(i) == Where(base, LAMBDA r : r.transaction_date = dates[i])
    IN  IF AnalyticsFilterError(req.status_filter, req.type_filter)
        THEN Raised(op, req, "ValueError")
        ELSE IF Len(dates) >= 2 /\ row_attribute = "method"
        THEN Raised(op, req, "TypeError")
        ELSE Ok(op, req,
                [i \in 1..Len(dates) |->
                    [date |-> IsoFormat(dates[i]),
                     transaction_count |-> RowCount(SqlCount(Group(i))),
                     total_amount |-> SqlSum(Group(i)),
                     average_amount |-> SqlAvg(Group(i)),
                     amount_change_percent |->
                        PercentChange(IF i = 1 THEN None
                                      ELSE Some(SqlSum(Group(i - 1))),
                                      SqlSum(Group(i))),
                     count_change_percent |->
                        PercentChange(IF i = 1 THEN None
                                      ELSE Some(SqlCount(Group(i - 1))),
                                      SqlCount(Group(i)))]])

\* The calendar: the months since the first day, the month of the year and
\* the year of a day.
MonthIndex(d) == (d - 1) \div DaysPerMonth
MonthOf(d) == (MonthIndex(d) % MonthsPerYear) + 1
YearOf(d) == (MonthIndex(d) \div MonthsPerYear) + 1

\* The values extract('year', ...) can yield: an integer, or a number that
\* datetime(...) refuses.
ExtractValues == {"integer", "float"}

\* get_monthly_comparison: one bucket per (year, month) that holds a row,
\* ORDER BY year, month.  The loop calls datetime(result.year, int(result.month), 1)
\* with the year as the database returned it, which raises TypeError for a
\* value that is no integer.
get_monthly_comparison(db, req) ==
    LET op == "get_monthly_comparison"
        base == AnalyticsTrendFilters(db, req.start_date, req.end_date,
                                      req.status_filter, req.type_filter)
        months == Ascending({MonthIndex(r.transaction_date) : r \in DOMAIN base})
        Group(i) == Where(base, LAMBDA r : MonthIndex(r.transaction_date) = months[i])
        year(i) == (months[i] \div MonthsPerYear) + 1
        month(i) == (months[i] % MonthsPerYear) + 1
    IN  IF AnalyticsFilterError(req.status_filter, req.type_filter)
        THEN Raised(op, req, "ValueError")
        ELSE IF months # << >> /\ extract_value = "float"
        THEN Raised(op, req, "TypeError")
        ELSE Ok(op, req,
                [i \in 1..Len(months) |->
                    [period |-> <<month(i), year(i)>>,
                     year |-> year(i),
                     month |-> month(i),
                     transaction_count |-> RowCount(SqlCount(Group(i))),
                     total_amount |-> SqlSum(Group(i)),
                     average_amount |-> SqlAvg(Group(i))]])

\* Whether the sequence lists every row of the bag as often as the bag holds it.
IsListing(seq, db) ==
    /\ Len(seq) = SqlCount(db)
    /\ \A r \in DOMAIN db : Cardinality({i \in 1..Len(seq) : seq[i] = r}) = db[r]

\* order_by(Transaction.amount.desc()): rows of equal amount come in an order
\* the database chooses.
OrderByAmountDesc(db) ==
    {seq \in [1..SqlCount(db) -> DOMAIN db] :
        /\ IsListing(seq, db)
        /\ \A i \in 1..(Len(seq) - 1) : seq[i].amount >= seq[i + 1].amount}

\* .limit(limit)
Limit(seq, limit) == SubSeq(seq, 1, IF Len(seq) < limit THEN Len(seq) ELSE limit)

\* top_query.all(): the result lists the database may return
TopQuery(db, req) ==
    {Limit(seq, req.limit) :
        seq \in OrderByAmountDesc(
                    AnalyticsBaseFilters(db, req.start_date, req.end_date,
                                         req.status_filter, req.type_filter))}

\* Variant: the loop completes and the rows are returned in the order of the
\* result.
get_top_transactions_listing(results, req) ==
    LET op == "get_top_transactions"
    IN  IF AnalyticsFilterError(req.status_filter, req.type_filter)
        THEN Raised(op, req, "ValueError")
        ELSE Ok(op, req, results) @@ [results |-> results]

\* The loop over the results reads result.status.value and result.type.value;
\* status and type are String(20) columns, so the rows carry plain strings
\* and the first row raises AttributeError.
get_top_transactions(results, req) ==
    LET op == "get_top_transactions"
    IN  IF AnalyticsFilterError(req.status_filter, req.type_filter)
        THEN Raised(op, req, "ValueError")
        ELSE IF results # << >>
        THEN Raised(op, req, "AttributeError") @@ [results |-> results]
        ELSE Ok(op, req, << >>) @@ [results |-> results]

---------------------------------------------------------------------------
(* app/utils/data_loader.py *)

\* The country names, in alphabetical order.
CountryNames == <<"Brazil", "Canada", "France", "Germany", "India">>

CountryIndex(c) == CHOOSE i \in 1..Len(CountryNames) : CountryNames[i] = c

\* Variant: the first row of a user_id kept.
RECURSIVE ZipToDictKeepFirst(_)
ZipToDictKeepFirst(rows) ==
    IF rows = << >> THEN << >>
    ELSE (rows[1].user_id :> rows[1].country) @@ ZipToDictKeepFirst(Tail(rows))

\* dict(zip(df['user_id'], df['country'])): a later row replaces an earlier
\* one of the same user_id.
RECURSIVE ZipToDict(_)
ZipToDict(rows) ==
    IF rows = << >> THEN << >>
    ELSE LET last == rows[Len(rows)]
         IN  (last.user_id :> last.country) @@ ZipToDict(SubSeq(rows, 1, Len(rows) - 1))

\* load_user_countries: {} when reading the file or its columns raises.
load_user_countries(csv) ==
    IF csv.kind = "ok" THEN ZipToDict(csv.rows) ELSE << >>

---------------------------------------------------------------------------
(* app/routers/country_reports.py *)

\* _get_transactions_dataframe: the module imports Transaction,
\* TransactionStatus and User only, so building the type filter raises
\* NameError (TransactionType).
DataframeError(status_filter, type_filter) ==
    IF status_filter # "all" /\ ~TransactionStatus(Lower(status_filter)).ok
    THEN "ValueError"
    ELSE IF type_filter # "all" THEN "NameError" ELSE ""

_get_transactions_dataframe(db, start_date, end_date, status_filter, type_filter) ==
    LET dated == Where(db, LAMBDA r :
                    /\ r.transaction_date >= start_date
                    /\ r.transaction_date <= end_date)
    IN  IF status_filter # "all"
        THEN Where(dated, LAMBDA r :
                r.status = TransactionStatus(Lower(status_filter)).member)
        ELSE dated

\* transactions_df['user_id'].map(user_countries): NaN for a user_id that is
\* no key of the mapping
MapCountry(user_countries, user_id) ==
    IF user_id \in DOMAIN user_countries THEN user_countries[user_id] ELSE "NaN"

\* Variant: the rows without a country kept.
DropUnmappedKeepAll(df, user_countries) == df

\* transactions_df.dropna(subset=['country'])
DropUnmapped(df, user_countries) ==
    Where(df, LAMBDA r : MapCountry(user_countries, r.user_id) # "NaN")

\* nunique of user_id
NUnique(df) == Cardinality({r.user_id : r \in DOMAIN df})

\* _aggregate_by_country: groupby('country') leaves out the NaN key and lists
\* the groups in ascending order of the key; sum, mean and count are rounded
\* to 2 decimals.
_aggregate_by_country(df, user_countries) ==
    LET named == {MapCountry(user_countries, r.user_id) : r \in DOMAIN df} \ {"NaN"}
        keys == Ascending({CountryIndex(c) : c \in named})
        Group(c) == Where(df, LAMBDA r : MapCountry(user_countries, r.user_id) = c)
    IN  [i \in 1..Len(keys) |->
            LET g == Group(CountryNames[keys[i]])
            IN  [country |-> CountryNames[keys[i]],
                 transaction_count |-> SqlCount(g),
                 total_amount |-> SqlSum(g),
                 average_amount |-> RoundDiv(SqlSum(g), SqlCount(g)),
                 unique_users |-> NUnique(g)]]

\* sort_mapping[sort_by]
SortKey(sort_by, x) ==
    CASE sort_by = "count" -> x.transaction_count
      [] sort_by = "total" -> x.total_amount
      [] sort_by = "avg" -> x.average_amount

\* sorted(countries, key=..., reverse=True): a stable sort, so entries of
\* equal key keep their order.  Insert x behind every entry whose key is
\* not smaller.
\* Variant: an unstable sort, an entry placed ahead of the entries of equal key.
InsertDescendingBeforeEqual(sorted, x, sort_by) ==
    LET ahead == {i \in 1..Len(sorted) :
                    \A j \in 1..i : SortKey(sort_by, sorted[j]) > SortKey(sort_by, x)}
        k == Cardinality(ahead)
    IN  SubSeq(sorted, 1, k) \o <<x>> \o SubSeq(sorted, k + 1, Len(sorted))

InsertDescending(sorted, x, sort_by) ==
    LET ahead == {i \in 1..Len(sorted) :
                    \A j \in 1..i : SortKey(sort_by, sorted[j]) >= SortKey(sort_by, x)}
        k == Cardinality(ahead)
    IN  SubSeq(sorted, 1, k) \o <<x>> \o SubSeq(sorted, k + 1, Len(sorted))

RECURSIVE SortedDescending(_, _)
SortedDescending(countries, sort_by) ==
    IF countries = << >> THEN << >>
    ELSE InsertDescending(
            SortedDescending(SubSeq(countries, 1, Len(countries) - 1), sort_by),
            countries[Len(countries)], sort_by)

\* Variant: the list cut to top_n before it is sorted.
_sort_and_filter_countries_cut_first(countries, sort_by, top_n) ==
    SortedDescending(Limit(countries, top_n), sort_by)

\* sorted(...)[:top_n]
_sort_and_filter_countries(countries, sort_by, top_n) ==
    Limit(SortedDescending(countries, sort_by), top_n)

RECURSIVE SumField(_, _)
SumField(countries, field) ==
    IF countries = << >> THEN 0
    ELSE countries[1][field] + SumField(Tail(countries), field)

\* Variant: the summary totals taken from the DataFrame, over every country
\* found.
_calculate_country_summary_over_all(countries, df, user_countries) ==
    IF countries = << >>
    THEN [total_countries |-> 0, total_transactions |-> 0, total_amount |-> 0,
          average_per_country |-> 0, top_performer |-> "None"]
    ELSE LET found == Cardinality({MapCountry(user_countries, r.user_id) :
                                      r \in DOMAIN df})
         IN  [total_countries |-> found,
              total_transactions |-> SqlCount(df),
              total_amount |-> SqlSum(df),
              average_per_country |-> RoundDiv(SqlSum(df), found),
              top_performer |-> countries[1].country,
              overall_stats |->
                  [total_countries_found |-> found,
                   total_transactions_all |-> SqlCount(df),
                   total_amount_all |-> SqlSum(df),
                   average_transaction_all |-> SqlAvg(df)]]

_calculate_country_summary(countries, df, user_countries) ==
    IF countries = << >>
    THEN [total_countries |-> 0, total_transactions |-> 0, total_amount |-> 0,
          average_per_country |-> 0, top_performer |-> "None"]
    ELSE [total_countries |-> Len(countries),
          total_transactions |-> SumField(countries, "transaction_count"),
          total_amount |-> SumField(countries, "total_amount"),
          average_per_country |->
              RoundDiv(SumField(countries, "total_amount"), Len(countries)),
          top_performer |-> countries[1].country,
          overall_stats |->
              [total_countries_found |->
                   Cardinality({MapCountry(user_countries, r.user_id) : r \in DOMAIN df}),
               total_transactions_all |-> SqlCount(df),
               total_amount_all |-> SqlSum(df),
               average_transaction_all |-> SqlAvg(df)]]

\* Variant: the test written as "user_countries is None", which the loader
\* never returns.
MappingUnavailableIsNone(user_countries) == FALSE

\* if not user_countries
MappingUnavailable(user_countries) == user_countries = << >>

EmptyCountryReport(period, filters) ==
    [period |-> period, filters |-> filters, countries |-> << >>,
     summary |-> [total_countries |-> 0, total_transactions |-> 0,
                  total_amount |-> 0]]

get_country_report(db, csv, now, req) ==
    LET op == "by-country"
        ps == _parse_date(req.start_date)
        pe == _parse_date(req.end_date)
        parsed_start_date == IF ps.date # 0 THEN ps.date ELSE FirstOfMonth(now)
        parsed_end_date == IF pe.date # 0 THEN pe.date ELSE now
        user_countries == load_user_countries(csv)
        failure == DataframeError(req.status, req.type)
        transactions_df ==
            _get_transactions_dataframe(db, parsed_start_date, parsed_end_date,
                                        req.status, req.type)
        mapped_df == DropUnmapped(transactions_df, user_countries)
        period == [start_date |-> IsoFormat(parsed_start_date),
                   end_date |-> IsoFormat(parsed_end_date)]
        filters == [status |-> req.status, type |-> req.type,
                    sort_by |-> req.sort_by, top_n |-> req.top_n]
        country_stats == _aggregate_by_country(mapped_df, user_countries)
        sorted_countries ==
            _sort_and_filter_countries(country_stats, req.sort_by, req.top_n)
    IN  IF ps.error \/ pe.error
        THEN HTTPException(op, req, 400, "Invalid date format")
        ELSE IF parsed_start_date > parsed_end_date
        THEN HTTPException(op, req, 400, "Start date cannot be after end date")
        ELSE IF req.status \notin {"all", "successful", "failed"}
        THEN HTTPException(op, req, 400, "Invalid status")
        ELSE IF req.type \notin {"all", "payment", "invoice"}
        THEN HTTPException(op, req, 400, "Invalid type")
        ELSE IF req.sort_by \notin {"count", "total", "avg"}
        THEN HTTPException(op, req, 400, "Invalid sort_by")
        ELSE IF MappingUnavailable(user_countries)
        THEN HTTPException(op, req, 500, "Could not load user-country data")
        ELSE IF failure # ""
        THEN HTTPException(op, req, 500, "Internal server error")
        ELSE IF DOMAIN transactions_df = {}
        THEN Ok(op, req, EmptyCountryReport(period, filters))
        ELSE IF DOMAIN mapped_df = {}
        THEN Ok(op, req, EmptyCountryReport(period, filters))
        ELSE Ok(op, req,
                [period |-> period, filters |-> filters,
                 countries |-> sorted_countries,
                 summary |-> _calculate_country_summary(sorted_countries,
                                                        mapped_df, user_countries)])

---------------------------------------------------------------------------
(* Workloads *)

\* The rows the report and analytics specifications draw the table from.
ReportRows == {r \in Transaction : r.user_id = 1}

\* Rows of one amount on one day, to reach larger counts.
UniformRows == {r \in ReportRows : r.amount = 5000 /\ r.transaction_date = 1}

FilterStatuses == {"all", "successful", "failed"}
FilterTypes == {"all", "payment", "invoice"}

GivenDates == {NoDate} \cup [form : {"iso"}, day : Days]

\* include_avg, include_min, include_max, include_daily_shift
ReportFlags ==
    {<<FALSE, FALSE, FALSE, FALSE>>, <<TRUE, TRUE, TRUE, FALSE>>,
     <<TRUE, FALSE, FALSE, TRUE>>, <<FALSE, TRUE, TRUE, TRUE>>}

ReportRequest(start, end, status, type, flags) ==
    [start_date |-> start, end_date |-> end, status |-> status, type |-> type,
     include_avg |-> flags[1], include_min |-> flags[2],
     include_max |-> flags[3], include_daily_shift |-> flags[4]]

ReportRequests ==
    {ReportRequest(s, e, st, ty, f) :
        s \in GivenDates, e \in GivenDates, st \in FilterStatuses,
        ty \in FilterTypes, f \in ReportFlags}

AnalyticsRequests ==
    [start_date : Days, end_date : Days, status_filter : FilterStatuses,
     type_filter : FilterTypes]

TopRequests ==
    [start_date : Days, end_date : Days, status_filter : FilterStatuses,
     type_filter : FilterTypes, limit : 1..MaxTopN]

\* The rows the country specification draws the table from.
CountryRows ==
    {r \in Transaction : r.type = "payment" /\ r.transaction_date = 1}

SortKeys == {"count", "total", "avg"}

CountryRequests ==
    [start_date : [form : {"iso"}, day : Days],
     end_date : [form : {"iso"}, day : Days],
     status : FilterStatuses, type : FilterTypes, sort_by : SortKeys,
     top_n : 1..MaxTopN]

CsvRow(u, c) == [user_id |-> u, country |-> c]

\* data/user_countries.csv: missing, holding the header line only, or
\* holding rows (user 3 has no row in the first one; the last one names user 1
\* twice).
CsvFiles ==
    {[kind |-> "missing", rows |-> << >>],
     [kind |-> "ok", rows |-> << >>],
     [kind |-> "ok", rows |-> <<CsvRow(1, "Canada"), CsvRow(2, "Brazil")>>],
     [kind |-> "ok", rows |-> <<CsvRow(1, "Canada"), CsvRow(2, "Canada"),
                               CsvRow(3, "Brazil")>>],
     [kind |-> "ok", rows |-> <<CsvRow(1, "France"), CsvRow(2, "Brazil"),
                               CsvRow(1, "Canada")>>]}

\* The parameter strings a caller may send.
AnyDates == {NoDate} \cup DateStrings
AnyStatuses == FilterStatuses \cup {"FAILED", "bogus"}
AnyTypes == FilterTypes \cup {"PAYMENT", "bogus"}
AnySortKeys == SortKeys \cup {"bogus"}

AnyReportRequests ==
    {ReportRequest(s, e, st, ty, f) :
        s \in AnyDates, e \in AnyDates, st \in AnyStatuses, ty \in AnyTypes,
        f \in {<<FALSE, FALSE, FALSE, FALSE>>, <<TRUE, TRUE, TRUE, TRUE>>}}

AnyCountryRequests ==
    [start_date : AnyDates, end_date : AnyDates, status : AnyStatuses,
     type : AnyTypes, sort_by : AnySortKeys, top_n : 1..MaxTopN]

ValidationRows ==
    {r \in CountryRows : r.user_id = 1 /\ r.amount = 5000}

\* The lists _aggregate_by_country can produce: distinct countries in
\* ascending order, the average being the rounded total over the count.
CountryStats ==
    {[country |-> CountryNames[i], transaction_count |-> n, total_amount |-> t,
      average_amount |-> RoundDiv(t, n), unique_users |-> u] :
        i \in 1..MaxCountries, n \in 1..2, t \in {30000, 50000}, u \in 1..2}

RECURSIVE CountryLists(_)
CountryLists(k) ==
    IF k = 0 THEN {<< >>}
    ELSE LET shorter == CountryLists(k - 1)
         IN  shorter \cup
             {Append(l, x) : l \in shorter,
                             x \in {y \in CountryStats :
                                       /\ y.country = CountryNames[k]
                                       /\ y.unique_users <= y.transaction_count}}

RankRequests == [sort_by : SortKeys, top_n : 1..MaxTopN]

NoCsv == [kind |-> "missing", rows |-> << >>]

---------------------------------------------------------------------------
(* Actions *)

\* Each request is served on its own: a handler runs when no response is
\* pending, and the response is then delivered to the caller.
Idle == response = NoResponse

Deliver ==
    /\ ~Idle
    /\ response' = NoResponse
    /\ UNCHANGED <<store, csv_file, ranking_input, enum_lookup, extract_value,
                 row_attribute, earlier>>

\* GET /report/
GetTransactionReport(requests) ==
    /\ Idle
    /\ \E req \in requests :
          response' = get_transaction_report(store, Today, req)
    /\ UNCHANGED <<store, csv_file, ranking_input, enum_lookup, extract_value,
                 row_attribute, earlier>>

\* TransactionAnalytics(db).get_comprehensive_metrics(...)
GetComprehensiveMetrics ==
    /\ Idle
    /\ \E req \in AnalyticsRequests :
          response' = get_comprehensive_metrics(store, req)
    /\ UNCHANGED <<store, csv_file, ranking_input, enum_lookup, extract_value,
                 row_attribute, earlier>>

\* TransactionAnalytics(db).get_top_transactions(...)
GetTopTransactions ==
    /\ Idle
    /\ \E req \in TopRequests :
          \E results \in TopQuery(store, req) :
              response' = get_top_transactions(results, req)
    /\ UNCHANGED <<store, csv_file, ranking_input, enum_lookup, extract_value,
                 row_attribute, earlier>>

\* GET /report/by-country
GetCountryReport(requests) ==
    /\ Idle
    /\ \E req \in requests :
          response' = get_country_report(store, csv_file, Today, req)
    /\ UNCHANGED <<store, csv_file, ranking_input, enum_lookup, extract_value,
                 row_attribute, earlier>>

\* _sort_and_filter_countries(countries, sort_by, top_n)
SortAndFilterCountries ==
    /\ Idle
    /\ \E req \in RankRequests :
          response' = Ok("_sort_and_filter_countries", req,
                         _sort_and_filter_countries(ranking_input, req.sort_by,
                                                    req.top_n))
    /\ UNCHANGED <<store, csv_file, ranking_input, enum_lookup, extract_value,
                 row_attribute, earlier>>

---------------------------------------------------------------------------
(* Specification of the report and analytics operations.  The requests   *)
(* carry member strings only, for which the two enum lookups agree.      *)

Init ==
    /\ store \in TablesUpTo(ReportRows, MaxTx) \cup TablesUpTo(UniformRows, MaxUniformTx)
    /\ csv_file = NoCsv
    /\ ranking_input = << >>
    /\ enum_lookup = "raises"
    /\ extract_value = "integer"
    /\ row_attribute = "column"
    /\ earlier = NoResponse
    /\ response = NoResponse

Next ==
    \/ GetTransactionReport(ReportRequests)
    \/ GetComprehensiveMetrics
    \/ GetTopTransactions
    \/ Deliver

Spec == Init /\ [][Next]_vars

---------------------------------------------------------------------------
(* Specification of the country report *)

InitCountry ==
    /\ store \in TablesUpTo(CountryRows, MaxTx)
    /\ csv_file \in CsvFiles
    /\ ranking_input = << >>
    /\ enum_lookup = "raises"
    /\ extract_value = "integer"
    /\ row_attribute = "column"
    /\ earlier = NoResponse
    /\ response = NoResponse

NextCountry ==
    \/ GetCountryReport(CountryRequests)
    \/ Deliver

SpecCountry == InitCountry /\ [][NextCountry]_vars

---------------------------------------------------------------------------
(* Specification of request validation: any parameter strings *)

InitValidation ==
    /\ store \in TablesUpTo(ValidationRows, 1)
    /\ csv_file \in CsvFiles
    /\ ranking_input = << >>
    /\ enum_lookup \in EnumLookups
    /\ extract_value = "integer"
    /\ row_attribute = "column"
    /\ earlier = NoResponse
    /\ response = NoResponse

NextValidation ==
    \/ GetTransactionReport(AnyReportRequests)
    \/ GetCountryReport(AnyCountryRequests)
    \/ Deliver

SpecValidation == InitValidation /\ [][NextValidation]_vars

---------------------------------------------------------------------------
(* Specification of the ranking operations *)

InitRank ==
    /\ \/ /\ store = EmptyTable
          /\ ranking_input \in CountryLists(MaxCountries)
       \/ /\ store \in TablesUpTo(ReportRows, MaxTx)
          /\ ranking_input = << >>
    /\ csv_file = NoCsv
    /\ enum_lookup = "raises"
    /\ extract_value = "integer"
    /\ row_attribute = "column"
    /\ earlier = NoResponse
    /\ response = NoResponse

NextRank ==
    \/ SortAndFilterCountries
    \/ GetTopTransactions
    \/ Deliver

SpecRank == InitRank /\ [][NextRank]_vars

---------------------------------------------------------------------------
(* Specification of the daily and monthly sequences *)

TrendDays == 1..MaxTrendDay

\* Rows over several months, a zero amount among them.
TrendRows ==
    [user_id : {1}, amount : {0, 5000, 15000}, status : TransactionStatusValues,
     type : {"payment"}, transaction_date : TrendDays]

\* Rows of one amount on the first two days, to reach larger counts.
TrendCountRows ==
    {r \in TrendRows : /\ r.amount = 5000
                       /\ r.status = "successful"
                       /\ r.transaction_date <= 2}

\* The rows are payments: the type filter "payment" selects what "all" does.
TrendRequests ==
    [start_date : {1, 2, MaxTrendDay}, end_date : {MaxTrendDay - 1, MaxTrendDay},
     status_filter : FilterStatuses, type_filter : {"all", "invoice"}]

\* /report/ asked for the daily breakdown over the same ranges
TrendReportRequests ==
    {ReportRequest(IsoFormat(q.start_date), IsoFormat(q.end_date),
                   q.status_filter, q.type_filter,
                   <<FALSE, FALSE, FALSE, TRUE>>) : q \in TrendRequests}

\* TransactionAnalytics(db).get_daily_trends(...)
GetDailyTrends ==
    /\ Idle
    /\ \E req \in TrendRequests : response' = get_daily_trends(store, req)
    /\ UNCHANGED <<store, csv_file, ranking_input, enum_lookup, extract_value,
                 row_attribute, earlier>>

\* TransactionAnalytics(db).get_monthly_comparison(...)
GetMonthlyComparison ==
    /\ Idle
    /\ \E req \in TrendRequests : response' = get_monthly_comparison(store, req)
    /\ UNCHANGED <<store, csv_file, ranking_input, enum_lookup, extract_value,
                 row_attribute, earlier>>

InitTrends ==
    /\ store \in TablesUpTo(TrendRows, MaxTx)
                    \cup TablesUpTo(TrendCountRows, MaxTrendCountTx)
    /\ csv_file = NoCsv
    /\ ranking_input = << >>
    /\ enum_lookup = "raises"
    /\ extract_value \in ExtractValues
    /\ row_attribute \in RowAttributes
    /\ earlier = NoResponse
    /\ response = NoResponse

NextTrends ==
    \/ GetDailyTrends
    \/ GetMonthlyComparison
    \/ GetTransactionReport(TrendReportRequests)
    \/ Deliver

SpecTrends == InitTrends /\ [][NextTrends]_vars

---------------------------------------------------------------------------
(* Specification of the /report/ sections and of the paths under /report. *)

\* app/main.py: the paths the application serves.
Routes == {"/", "/health", "/report/", "/report/by-country"}

\* The answer to a GET of a path no route matches.
NotFound(path, query) ==
    [op |-> path, req |-> query, code |-> 404, detail |-> "Not Found",
     body |-> << >>]

\* Query strings naming further sections.  get_transaction_report declares
\* no parameter include_monthly_comparison or include_top_transactions, so
\* these two are not read.
SectionRequests ==
    {ReportRequest(s, NoDate, st, "all", f)
        @@ [include_monthly_comparison |-> m, include_top_transactions |-> t] :
        s \in {NoDate, IsoFormat(1)}, st \in FilterStatuses, f \in ReportFlags,
        m \in BOOLEAN, t \in BOOLEAN}

\* The values of days a caller sends to /report/summary.
SummaryDays == {0, 1, 7, 30, 365, 366, 400}

\* GET /report/summary?days=...
GetReportSummary ==
    /\ Idle
    /\ "/report/summary" \notin Routes
    /\ \E days \in SummaryDays :
          response' = NotFound("/report/summary", [days |-> days])
    /\ UNCHANGED <<store, csv_file, ranking_input, enum_lookup, extract_value,
                 row_attribute, earlier>>

InitSections ==
    /\ store \in TablesUpTo(ReportRows, MaxTx)
    /\ csv_file = NoCsv
    /\ ranking_input = << >>
    /\ enum_lookup = "raises"
    /\ extract_value = "integer"
    /\ row_attribute = "column"
    /\ earlier = NoResponse
    /\ response = NoResponse

NextSections ==
    \/ GetTransactionReport(SectionRequests)
    \/ GetReportSummary
    \/ Deliver

SpecSections == InitSections /\ [][NextSections]_vars

---------------------------------------------------------------------------
(* Specification of get_comprehensive_metrics over both kinds of result rows *)

InitMetrics ==
    /\ store \in TablesUpTo(ReportRows, MaxTx)
    /\ csv_file = NoCsv
    /\ ranking_input = << >>
    /\ enum_lookup = "raises"
    /\ extract_value = "integer"
    /\ row_attribute \in RowAttributes
    /\ earlier = NoResponse
    /\ response = NoResponse

NextMetrics ==
    \/ GetComprehensiveMetrics
    \/ Deliver

SpecMetrics == InitMetrics /\ [][NextMetrics]_vars

---------------------------------------------------------------------------
(* Specification of repeated calls: the answer to a first call is kept and  *)
(* the same call is made again, other calls in between.                     *)

RepeatRows ==
    {r \in CountryRows : r.user_id \in {1, 2} /\ r.amount = 5000}

RepeatCsv ==
    [kind |-> "ok", rows |-> <<CsvRow(1, "Canada"), CsvRow(2, "Brazil")>>]

RepeatReportRequests ==
    {ReportRequest(IsoFormat(1), IsoFormat(1), st, "all",
                   <<TRUE, TRUE, TRUE, TRUE>>) : st \in FilterStatuses}

RepeatCountryRequests ==
    [start_date : {IsoFormat(1)}, end_date : {IsoFormat(1)},
     status : FilterStatuses, type : {"all"}, sort_by : SortKeys,
     top_n : 1..MaxTopN]

\* The calls whose first answer the caller keeps.
Kept(r) ==
    IF r.op \in {"report", "by-country"}
    THEN r.req.status = "all"
    ELSE /\ r.req.status_filter = "all"
         /\ r.req.type_filter = "all"
         /\ r.req.start_date = 1

\* The caller keeps the answer to a call it will repeat.
DeliverFirst ==
    /\ ~Idle
    /\ earlier = NoResponse
    /\ Kept(response)
    /\ earlier' = response
    /\ response' = NoResponse
    /\ UNCHANGED <<store, csv_file, ranking_input, enum_lookup, extract_value,
                 row_attribute>>

InitRepeat ==
    /\ store \in TablesUpTo(RepeatRows, MaxTx)
    /\ csv_file = RepeatCsv
    /\ ranking_input = << >>
    /\ enum_lookup = "raises"
    /\ extract_value = "integer"
    /\ row_attribute = "column"
    /\ earlier = NoResponse
    /\ response = NoResponse

NextRepeat ==
    \/ GetTransactionReport(RepeatReportRequests)
    \/ GetCountryReport(RepeatCountryRequests)
    \/ GetComprehensiveMetrics
    \/ GetTopTransactions
    \/ GetDailyTrends
    \/ GetMonthlyComparison
    \/ DeliverFirst
    \/ Deliver

SpecRepeat == InitRepeat /\ [][NextRepeat]_vars

---------------------------------------------------------------------------
(* Specification of the loader *)

\* The rows a mapping file may hold.
RECURSIVE CsvRowLists(_)
CsvRowLists(n) ==
    IF n = 0 THEN {<< >>}
    ELSE CsvRowLists(n - 1) \cup
         {Append(rows, CsvRow(u, c)) :
             rows \in {l \in CsvRowLists(n - 1) : Len(l) = n - 1},
             u \in UserIds, c \in {"Brazil", "Canada", "France"}}

\* The files: no file, a file of no bytes (read_csv raises EmptyDataError),
\* a file without the columns user_id and country (df['user_id'] raises
\* KeyError), and files with the two columns.
LoaderFiles ==
    {[kind |-> k, rows |-> << >>] : k \in {"missing", "empty", "malformed"}}
        \cup {[kind |-> "ok", rows |-> rows] : rows \in CsvRowLists(MaxCsvRows)}

\* load_user_countries("data/user_countries.csv")
LoadUserCountries ==
    /\ Idle
    /\ response' = Ok("load_user_countries", csv_file,
                      load_user_countries(csv_file))
    /\ UNCHANGED <<store, csv_file, ranking_input, enum_lookup, extract_value,
                 row_attribute, earlier>>

InitLoader ==
    /\ store = EmptyTable
    /\ csv_file \in LoaderFiles
    /\ ranking_input = << >>
    /\ enum_lookup = "raises"
    /\ extract_value = "integer"
    /\ row_attribute = "column"
    /\ earlier = NoResponse
    /\ response = NoResponse

NextLoader ==
    \/ LoadUserCountries
    \/ Deliver

SpecLoader == InitLoader /\ [][NextLoader]_vars

---------------------------------------------------------------------------
(* Specification of the daily sequences over amounts of either sign: the    *)
(* column amount is Numeric(10, 2) without a constraint on the sign.        *)

SignedRows ==
    [user_id : {1}, amount : {-5000, 5000, 15000}, status : {"successful"},
     type : {"payment"}, transaction_date : 1..2]

InitSigned ==
    /\ store \in TablesUpTo(SignedRows, MaxTx)
    /\ csv_file = NoCsv
    /\ ranking_input = << >>
    /\ enum_lookup = "raises"
    /\ extract_value = "integer"
    /\ row_attribute = "column"
    /\ earlier = NoResponse
    /\ response = NoResponse

NextSigned ==
    \/ GetDailyTrends
    \/ GetTransactionReport(TrendReportRequests)
    \/ Deliver

SpecSigned == InitSigned /\ [][NextSigned]_vars

---------------------------------------------------------------------------
(* Properties.  The figures a response is compared with are computed here  *)
(* from the table and the request, not taken from the handlers.            *)

\* The inclusive range a request covers: a given date, else the first day of
\* the current month and today.
RangeStart(req) ==
    IF req.start_date.form \in {"iso", "unpadded"}
    THEN req.start_date.day ELSE FirstOfMonth(Today)

RangeEnd(req) ==
    IF req.end_date.form \in {"iso", "unpadded"}
    THEN req.end_date.day ELSE Today

\* The rows of the table inside a range that pass a status and a type filter.
Matching(db, start, end, status, type) ==
    {r \in DOMAIN db :
        /\ start <= r.transaction_date
        /\ r.transaction_date <= end
        /\ status \in {"all", r.status}
        /\ type \in {"all", r.type}}

Successful(rows) == {r \in rows : r.status = "successful"}

Failed(rows) == {r \in rows : r.status = "failed"}

ReportMatching ==
    Matching(store, RangeStart(response.req), RangeEnd(response.req),
             response.req.status, response.req.type)

MetricsMatching ==
    Matching(store, response.req.start_date, response.req.end_date,
             response.req.status_filter, response.req.type_filter)

IsReport == response.op = "report" /\ response.code = 200

IsMetrics == response.op = "get_comprehensive_metrics" /\ response.code = 200

\* A valid /report/ request: dates in order, filters from the documented sets.
ValidReportRequest(req) ==
    /\ req.start_date.form \in {"none", "iso"}
    /\ req.end_date.form \in {"none", "iso"}
    /\ RangeStart(req) <= RangeEnd(req)
    /\ req.status \in FilterStatuses
    /\ req.type \in FilterTypes

\* C1: for every valid request, GET /report/ answers with a report whose
\* metrics.total_transactions counts every transaction matching the date
\* range and the filters, whatever its status, and whose
\* metrics.total_amount is the sum of the amounts of the matching
\* transactions with status successful only.
C1_ReportTotals ==
    (response.op = "report" /\ ValidReportRequest(response.req)) =>
        /\ response.code = 200
        /\ response.body.metrics.total_transactions =
               CountOver(store, ReportMatching)
        /\ response.body.metrics.total_amount =
               SumOver(store, Successful(ReportMatching))

\* A report over a successful and a failed transaction: both are counted,
\* the successful one alone is summed.
C1_Witness ==
    /\ IsReport
    /\ response.req.status = "all"
    /\ response.body.metrics.total_transactions = 2
    /\ Successful(ReportMatching) # {}
    /\ Failed(ReportMatching) # {}
    /\ response.body.metrics.total_amount = 5000
    /\ SumOver(store, ReportMatching) = 15000

\* C2: get_comprehensive_metrics follows the same contract: total_amount is
\* the sum over the successful matching transactions only, and so equals
\* successful_amount.
C2_MetricsTotalAmountSuccessfulOnly ==
    IsMetrics =>
        /\ response.body.total_amount =
               SumOver(store, Successful(MetricsMatching))
        /\ response.body.total_amount = response.body.successful_amount

\* C3: with the status filter "all", successful_transactions plus
\* failed_transactions equals total_transactions, for every date range and
\* every type filter.
C3_StatusCountsPartition ==
    (IsMetrics /\ response.req.status_filter = "all") =>
        response.body.successful_transactions
            + response.body.failed_transactions
                = response.body.total_transactions

\* Both statuses occur among the matching transactions.
C3_Witness ==
    /\ IsMetrics
    /\ response.req.status_filter = "all"
    /\ response.body.successful_transactions >= 1
    /\ response.body.failed_transactions >= 1

\* min <= num/den <= max for an average kept as a fraction
Between(min, avg, max) ==
    /\ min * avg.den <= avg.num
    /\ avg.num <= max * avg.den

\* C4: when at least one transaction matches, the minimum, average and
\* maximum amounts of one response satisfy min <= avg <= max: for /report/
\* asked with include_avg, include_min and include_max, and for
\* get_comprehensive_metrics.
C4_MinAvgMax ==
    /\ (/\ IsReport
        /\ response.req.include_avg
        /\ response.req.include_min
        /\ response.req.include_max
        /\ ReportMatching # {}) =>
            /\ {"average_amount", "minimum_amount", "maximum_amount"}
                   \subseteq DOMAIN response.body.metrics
            /\ Between(response.body.metrics.minimum_amount,
                       response.body.metrics.average_amount,
                       response.body.metrics.maximum_amount)
    /\ (IsMetrics /\ MetricsMatching # {}) =>
            Between(response.body.minimum_amount,
                    response.body.average_amount,
                    response.body.maximum_amount)

\* A report over transactions of different amounts: the average lies
\* strictly between the minimum and the maximum.
C4_Witness ==
    /\ IsReport
    /\ response.req.include_avg
    /\ response.req.include_min
    /\ response.req.include_max
    /\ ReportMatching # {}
    /\ response.body.metrics.minimum_amount * response.body.metrics.average_amount.den
           < response.body.metrics.average_amount.num
    /\ response.body.metrics.average_amount.num
           < response.body.metrics.maximum_amount * response.body.metrics.average_amount.den

\* C5: success_rate is successful_transactions / total_transactions * 100
\* rounded to 2 decimals when total_transactions > 0 and 0 otherwise; it
\* lies in [0, 100].  (The rate is kept in hundredths of a percent.)
C5_SuccessRate ==
    IsMetrics =>
        LET total == CountOver(store, MetricsMatching)
            successful == CountOver(store, Successful(MetricsMatching))
        IN  /\ response.body.total_transactions = total
            /\ response.body.successful_transactions = successful
            /\ total = 0 => response.body.success_rate = 0
            /\ total > 0 =>
                   \* the nearest hundredth: twice the distance to the
                   \* exact quotient is at most one unit
                   LET d == response.body.success_rate * total
                                - successful * 10000
                   IN  -total <= 2 * d /\ 2 * d <= total
            /\ 0 <= response.body.success_rate
            /\ response.body.success_rate <= 10000

\* Two of three matching transactions succeeded: 66.67 percent.
C5_Witness ==
    /\ IsMetrics
    /\ response.body.total_transactions = 3
    /\ response.body.successful_transactions = 2
    /\ response.body.success_rate = 6667

CountryMatching ==
    Matching(store, RangeStart(response.req), RangeEnd(response.req),
             response.req.status, response.req.type)

\* A valid /report/by-country request.
ValidCountryRequest(req) ==
    /\ req.start_date.form \in {"none", "iso"}
    /\ req.end_date.form \in {"none", "iso"}
    /\ RangeStart(req) <= RangeEnd(req)
    /\ req.status \in FilterStatuses
    /\ req.type \in FilterTypes
    /\ req.sort_by \in SortKeys
    /\ req.top_n >= 1

\* The mapping file is missing or holds no row.
MappingEmpty == csv_file.kind = "missing" \/ csv_file.rows = << >>

\* C6: when no transaction matches a valid request, the response is a
\* success, never an error: /report/ answers total_transactions 0 and
\* total_amount 0, and /report/by-country (the mapping not empty) answers an
\* empty countries list with total_countries, total_transactions and
\* total_amount 0.
C6_EmptyResultIsNoError ==
    /\ (/\ response.op = "report"
        /\ ValidReportRequest(response.req)
        /\ ReportMatching = {}) =>
            /\ response.code = 200
            /\ response.body.metrics.total_transactions = 0
            /\ response.body.metrics.total_amount = 0
    /\ (/\ response.op = "by-country"
        /\ ValidCountryRequest(response.req)
        /\ ~MappingEmpty
        /\ CountryMatching = {}) =>
            /\ response.code = 200
            /\ response.body.countries = << >>
            /\ response.body.summary.total_countries = 0
            /\ response.body.summary.total_transactions = 0
            /\ response.body.summary.total_amount = 0

\* C7: a request to /report/ or /report/by-country with a date
\* string not in YYYY-MM-DD form, with start_date after end_date, or with a
\* status, type or sort_by outside the enumerated sets ends in a 400
\* response, never in a report or a 500.
C7_InvalidParameterIs400 ==
    (/\ response.op \in {"report", "by-country"}
     /\ \/ response.req.start_date.form \notin {"none", "iso"}
        \/ response.req.end_date.form \notin {"none", "iso"}
        \/ RangeStart(response.req) > RangeEnd(response.req)
        \/ response.req.status \notin FilterStatuses
        \/ response.req.type \notin FilterTypes
        \/ response.op = "by-country" /\ response.req.sort_by \notin SortKeys)
    => response.code = 400

\* C8: with an empty user->country mapping (file missing or without rows),
\* an otherwise valid /report/by-country request ends in HTTP 500 with the
\* detail 'Could not load user-country data', whether or not transactions
\* match.
C8_EmptyMappingIs500 ==
    (/\ response.op = "by-country"
     /\ ValidCountryRequest(response.req)
     /\ MappingEmpty) =>
        /\ response.code = 500
        /\ response.detail = "Could not load user-country data"

\* The mapping file holds no row while transactions match the request.
C8_Witness ==
    /\ response.op = "by-country"
    /\ ValidCountryRequest(response.req)
    /\ csv_file.kind = "ok"
    /\ csv_file.rows = << >>
    /\ CountryMatching # {}
    /\ response.code = 500
    /\ response.detail = "Could not load user-country data"

\* The matching rows of users the mapping knows.
MappedMatching ==
    {r \in CountryMatching : r.user_id \in DOMAIN load_user_countries(csv_file)}

\* C9: transactions of users without an entry in the mapping contribute to
\* no figure of the country report: every listed country's count, total and
\* unique users, the summary totals and summary.overall_stats are figures of
\* the mapped matching transactions, and no country stands for the unmapped.
C9_UnmappedUsersExcluded ==
    (response.op = "by-country" /\ response.code = 200) =>
        LET user_countries == load_user_countries(csv_file)
            countries == response.body.countries
            summary == response.body.summary
            Of(c) == {r \in MappedMatching : user_countries[r.user_id] = c}
        IN  /\ MappedMatching = {} => countries = << >>
            /\ \A i \in DOMAIN countries :
                  /\ Of(countries[i].country) # {}
                  /\ countries[i].transaction_count =
                         CountOver(store, Of(countries[i].country))
                  /\ countries[i].total_amount =
                         SumOver(store, Of(countries[i].country))
                  /\ countries[i].unique_users =
                         Cardinality({r.user_id : r \in Of(countries[i].country)})
            /\ summary.total_transactions <= CountOver(store, MappedMatching)
            /\ summary.total_amount <= SumOver(store, MappedMatching)
            /\ "overall_stats" \in DOMAIN summary =>
                  /\ summary.overall_stats.total_transactions_all =
                         CountOver(store, MappedMatching)
                  /\ summary.overall_stats.total_amount_all =
                         SumOver(store, MappedMatching)
                  /\ summary.overall_stats.total_countries_found =
                         Cardinality({user_countries[r.user_id] :
                                         r \in MappedMatching})
                  /\ summary.overall_stats.average_transaction_all.num
                         * CountOver(store, MappedMatching)
                       = SumOver(store, MappedMatching)
                         * summary.overall_stats.average_transaction_all.den

\* A report over the transactions of a mapped and of an unmapped user.
C9_Witness ==
    /\ response.op = "by-country"
    /\ response.code = 200
    /\ response.body.countries # << >>
    /\ CountryMatching \ MappedMatching # {}
    /\ "overall_stats" \in DOMAIN response.body.summary

\* The value an entity is ranked by.
RankKey(sort_by, x) ==
    IF sort_by = "count" THEN x.transaction_count
    ELSE IF sort_by = "total" THEN x.total_amount
    ELSE x.average_amount

\* How often x occurs in the sequence.
Occurrences(seq, x) == Cardinality({i \in DOMAIN seq : seq[i] = x})

InputPosition(x) == CHOOSE j \in DOMAIN ranking_input : ranking_input[j] = x

\* C11: the country ranking is stable: countries of equal sort key appear in
\* the output in the relative order the grouping step produced them, and the
\* top_n cut keeps the earlier of them; the output is made of input entries.
C11_RankingStable ==
    response.op = "_sort_and_filter_countries" =>
        LET out == response.body
            sort_by == response.req.sort_by
        IN  /\ \A i \in DOMAIN out : \E j \in DOMAIN ranking_input :
                  ranking_input[j] = out[i]
            /\ \A i, k \in DOMAIN out :
                  (i < k /\ RankKey(sort_by, out[i]) = RankKey(sort_by, out[k]))
                      => InputPosition(out[i]) < InputPosition(out[k])
            /\ \A j \in DOMAIN ranking_input : \A i \in DOMAIN out :
                  (/\ Occurrences(out, ranking_input[j]) = 0
                   /\ RankKey(sort_by, ranking_input[j]) = RankKey(sort_by, out[i]))
                      => InputPosition(out[i]) < j

\* top_n = 2 over totals {A: 300, B: 500, C: 500}: exactly B and C, in their
\* input order.
C11_Witness ==
    /\ response.op = "_sort_and_filter_countries"
    /\ response.req.sort_by = "total"
    /\ response.req.top_n = 2
    /\ Len(ranking_input) = 3
    /\ ranking_input[1].total_amount = 30000
    /\ ranking_input[2].total_amount = 50000
    /\ ranking_input[3].total_amount = 50000
    /\ response.body = <<ranking_input[2], ranking_input[3]>>

IsTrends == response.op = "get_daily_trends" /\ response.code = 200

IsMonthly == response.op = "get_monthly_comparison" /\ response.code = 200

IsBreakdown == IsReport /\ "daily_breakdown" \in DOMAIN response.body

\* The request of an analytics method names member strings only.
ValidAnalyticsRequest(req) ==
    req.status_filter \in FilterStatuses /\ req.type_filter \in FilterTypes

ChangeUndefinedWhereReturned ==
    /\ IsTrends =>
          \A i \in DOMAIN response.body :
              LET b == response.body
              IN  /\ i = 1 => /\ b[i].amount_change_percent = None
                              /\ b[i].count_change_percent = None
                  /\ (i > 1 /\ b[i - 1].total_amount = 0)
                        => b[i].amount_change_percent = None
    /\ IsBreakdown =>
          \A i \in DOMAIN response.body.daily_breakdown :
              LET b == response.body.daily_breakdown
              IN  /\ i = 1 => b[i].percent_change = None
                  /\ (i > 1 /\ b[i - 1].total_amount = 0)
                        => b[i].percent_change = None

\* A day of total 0 followed by a day with an amount: the second bucket has
\* no amount change, while its count change is defined.
C12_Witness ==
    /\ IsTrends
    /\ Len(response.body) = 2
    /\ response.body[1].total_amount = 0
    /\ response.body[2].total_amount > 0
    /\ response.body[2].amount_change_percent = None
    /\ response.body[2].count_change_percent.defined

\* (current - previous) / previous * 100 rounded to 2 decimals, in hundredths
\* of a percent: the nearest integer to the exact quotient.
IsChange(value, previous, current) ==
    /\ value.defined
    /\ LET d == value.value * previous - (current - previous) * 10000
       IN  -previous <= 2 * d /\ 2 * d <= previous

\* C13: every bucket i > 1 of a daily sequence whose previous bucket has a
\* non-zero total carries amount_change_percent, the change of the total
\* against the previous bucket in percent rounded to 2 decimals, and
\* count_change_percent, the same for the counts; in the daily_breakdown of
\* /report/ as well as in get_daily_trends.
C13_ChangePercent ==
    LET Carries(b) ==
            \A i \in DOMAIN b :
                (i > 1 /\ b[i - 1].total_amount # 0) =>
                    /\ "amount_change_percent" \in DOMAIN b[i]
                    /\ "count_change_percent" \in DOMAIN b[i]
                    /\ IsChange(b[i].amount_change_percent,
                                b[i - 1].total_amount, b[i].total_amount)
                    /\ IsChange(b[i].count_change_percent,
                                b[i - 1].transaction_count, b[i].transaction_count)
    IN  /\ IsTrends => Carries(response.body)
        /\ IsBreakdown => Carries(response.body.daily_breakdown)

\* The part of C13 that get_daily_trends satisfies.
TrendsChangePercent ==
    IsTrends =>
        \A i \in DOMAIN response.body :
            (i > 1 /\ response.body[i - 1].total_amount # 0) =>
                /\ IsChange(response.body[i].amount_change_percent,
                            response.body[i - 1].total_amount,
                            response.body[i].total_amount)
                /\ IsChange(response.body[i].count_change_percent,
                            response.body[i - 1].transaction_count,
                            response.body[i].transaction_count)

PeriodsAscending ==
    /\ IsTrends =>
          \A i \in 1..(Len(response.body) - 1) :
              response.body[i].date.day < response.body[i + 1].date.day
    /\ IsBreakdown =>
          LET b == response.body.daily_breakdown
          IN  \A i \in 1..(Len(b) - 1) : b[i].date.day < b[i + 1].date.day
    /\ IsMonthly =>
          \A i \in 1..(Len(response.body) - 1) :
              \/ response.body[i].year < response.body[i + 1].year
              \/ /\ response.body[i].year = response.body[i + 1].year
                 /\ response.body[i].month < response.body[i + 1].month

\* Two months of different years, the later year with the smaller month
\* number.
C14_Witness ==
    /\ IsMonthly
    /\ Len(response.body) = 2
    /\ response.body[1].year < response.body[2].year
    /\ response.body[1].month > response.body[2].month

\* C15: in a /report/ response each optional section (daily_breakdown,
\* monthly_comparison, top_transactions) is present exactly when its flag
\* (include_daily_shift, include_monthly_comparison,
\* include_top_transactions) is set, a present section is a list, of at most
\* 10 entries for top_transactions; period, filters and metrics are always
\* present.
C15_SectionsFollowFlags ==
    IsReport =>
        /\ {"period", "filters", "metrics"} \subseteq DOMAIN response.body
        /\ "daily_breakdown" \in DOMAIN response.body
               <=> response.req.include_daily_shift
        /\ "monthly_comparison" \in DOMAIN response.body
               <=> response.req.include_monthly_comparison
        /\ "top_transactions" \in DOMAIN response.body
               <=> response.req.include_top_transactions
        /\ "top_transactions" \in DOMAIN response.body
               => Len(response.body.top_transactions) <= 10

\* The part of C15 the handler satisfies: the core keys and daily_breakdown.
DailySectionFollowsFlag ==
    IsReport =>
        /\ {"period", "filters", "metrics"} \subseteq DOMAIN response.body
        /\ "daily_breakdown" \in DOMAIN response.body
               <=> response.req.include_daily_shift

\* The value an optional metric has: a figure of the successful matching
\* transactions, 0 when there is none.
OverSuccessful(rows) == EmptyTable @@ [r \in Successful(rows) |-> store[r]]

\* C16: /report/ asked with include_avg (include_min, include_max) and valid
\* filters answers with metrics.average_amount (minimum_amount,
\* maximum_amount) computed over the successful matching transactions; when
\* there is none, also when nothing matches at all, the key is present with
\* value 0.
C16_OptionalMetricsPresent ==
    (response.op = "report" /\ ValidReportRequest(response.req)) =>
        /\ response.code = 200
        /\ response.req.include_avg =>
              /\ "average_amount" \in DOMAIN response.body.metrics
              /\ response.body.metrics.average_amount
                     = SqlAvg(OverSuccessful(ReportMatching))
        /\ response.req.include_min =>
              /\ "minimum_amount" \in DOMAIN response.body.metrics
              /\ response.body.metrics.minimum_amount
                     = SqlMin(OverSuccessful(ReportMatching))
        /\ response.req.include_max =>
              /\ "maximum_amount" \in DOMAIN response.body.metrics
              /\ response.body.metrics.maximum_amount
                     = SqlMax(OverSuccessful(ReportMatching))

\* The part of C16 the handler satisfies: the keys and their values when at
\* least one transaction matches.
OptionalMetricsWhenMatching ==
    (/\ response.op = "report"
     /\ ValidReportRequest(response.req)
     /\ ReportMatching # {}) =>
        /\ response.code = 200
        /\ response.req.include_avg =>
              /\ "average_amount" \in DOMAIN response.body.metrics
              /\ response.body.metrics.average_amount
                     = SqlAvg(OverSuccessful(ReportMatching))
        /\ response.req.include_min =>
              /\ "minimum_amount" \in DOMAIN response.body.metrics
              /\ response.body.metrics.minimum_amount
                     = SqlMin(OverSuccessful(ReportMatching))
        /\ response.req.include_max =>
              /\ "maximum_amount" \in DOMAIN response.body.metrics
              /\ response.body.metrics.maximum_amount
                     = SqlMax(OverSuccessful(ReportMatching))

\* C17: every successful /report/ response carries in metrics the keys
\* success_rate, successful_transactions, failed_transactions and
\* type_breakdown (payment and invoice, each with count and amount) besides
\* total_transactions and total_amount, whatever the flags; success_rate is 0
\* when nothing matches.
C17_MetricsKeys ==
    IsReport =>
        /\ {"total_transactions", "total_amount", "success_rate",
            "successful_transactions", "failed_transactions", "type_breakdown"}
               \subseteq DOMAIN response.body.metrics
        /\ DOMAIN response.body.metrics.type_breakdown = {"payment", "invoice"}
        /\ \A t \in {"payment", "invoice"} :
              DOMAIN response.body.metrics.type_breakdown[t] = {"count", "amount"}
        /\ ReportMatching = {} => response.body.metrics.success_rate = 0

\* C18: GET /report/summary with days in 1..365 answers 200 with a period
\* (start_date, end_date, days as requested) and a summary
\* (total_transactions, total_amount, success_rate, average_amount); with
\* days outside 1..365 it answers 422.
C18_SummaryEndpoint ==
    response.op = "/report/summary" =>
        IF response.req.days \in 1..365
        THEN /\ response.code = 200
             /\ DOMAIN response.body = {"period", "summary"}
             /\ DOMAIN response.body.period = {"start_date", "end_date", "days"}
             /\ response.body.period.days = response.req.days
             /\ DOMAIN response.body.summary =
                    {"total_transactions", "total_amount", "success_rate",
                     "average_amount"}
        ELSE response.code = 422

\* The failed transactions inside the date range and the type filter of the
\* request, whatever its status filter.
FailedInScope ==
    Failed(Matching(store, response.req.start_date, response.req.end_date,
                    "all", response.req.type_filter))

\* C19 as stated: failed_transactions of get_comprehensive_metrics is the
\* number of failed transactions inside the date range and the type filter,
\* the same for every value of the status filter.
C19_FailedIgnoresStatusFilter ==
    IsMetrics =>
        response.body.failed_transactions = CountOver(store, FailedInScope)

\* C19: failed_transactions of get_comprehensive_metrics is the number of
\* failed transactions inside the date range and the type filter when the
\* status filter is "all" or "failed", and 0 when it is "successful".
C19_FailedTransactions ==
    IsMetrics =>
        response.body.failed_transactions =
            IF response.req.status_filter = "successful"
            THEN 0
            ELSE CountOver(store, FailedInScope)

\* Failed transactions are counted under the status filter "failed" while
\* the type filter keeps another failed transaction of the range out.
C19_Witness ==
    /\ IsMetrics
    /\ response.req.status_filter = "failed"
    /\ response.req.type_filter # "all"
    /\ response.body.failed_transactions >= 1
    /\ \E r \in DOMAIN store :
          /\ r.status = "failed"
          /\ response.req.start_date <= r.transaction_date
          /\ r.transaction_date <= response.req.end_date
          /\ r.type # response.req.type_filter

\* C20: with the status filter "successful", successful_transactions equals
\* total_transactions and failed_transactions is 0, also when failed
\* transactions lie inside the date range.
C20_SuccessfulFilter ==
    (IsMetrics /\ response.req.status_filter = "successful") =>
        /\ response.body.successful_transactions
               = response.body.total_transactions
        /\ response.body.failed_transactions = 0

\* Successful transactions are counted while a failed one lies inside the
\* range and the type filter.
C20_Witness ==
    /\ IsMetrics
    /\ response.req.status_filter = "successful"
    /\ response.body.total_transactions >= 1
    /\ FailedInScope # {}

\* The matching transactions of one type.
OfType(rows, t) == {r \in rows : r.type = t}

TypeBreakdownAmounts ==
    IsMetrics =>
        /\ DOMAIN response.body.type_breakdown = {"payment", "invoice"}
        /\ \A t \in {"payment", "invoice"} :
              response.body.type_breakdown[t].amount
                  = SumOver(store, OfType(MetricsMatching, t))

\* The amounts of the two types exceed the successful-only total.
TypeBreakdownExceedsSuccessful ==
    /\ IsMetrics
    /\ response.body.type_breakdown.payment.amount
           + response.body.type_breakdown.invoice.amount
               > response.body.successful_amount
    /\ response.body.successful_amount > 0

\* What the caller of an operation observes.
Output(r) == [code |-> r.code, detail |-> r.detail, body |-> r.body]

\* The call answered now repeats the call whose answer was kept.
Repeated ==
    /\ response # NoResponse
    /\ earlier # NoResponse
    /\ response.op = earlier.op
    /\ response.req = earlier.req

RepeatedTopQueryReordered ==
    /\ Repeated
    /\ response.op = "get_top_transactions"
    /\ response.results # earlier.results

IsCountryReport == response.op = "by-country" /\ response.code = 200

SummaryKeys ==
    {"total_countries", "total_transactions", "total_amount",
     "average_per_country", "top_performer"}

\* C23: the summary of every successful /report/by-country response holds
\* the keys total_countries, total_transactions, total_amount,
\* average_per_country and top_performer, also when no transaction matches
\* and when every matching transaction belongs to an unmapped user.
C23_SummaryKeys ==
    IsCountryReport => SummaryKeys \subseteq DOMAIN response.body.summary

\* The part of C23 the handler satisfies: a report that lists a country.
SummaryKeysWhenCountries ==
    (IsCountryReport /\ response.body.countries # << >>)
        => SummaryKeys \subseteq DOMAIN response.body.summary

IsLoaded == response.op = "load_user_countries"

\* C24: load_user_countries raises nothing; it returns the empty mapping for
\* a missing file, an empty file and a file without the columns user_id and
\* country, and for a file with the columns one entry per user_id of the
\* file, which maps the user_id to the country of its row (of its last row
\* when the file names it more than once).
C24_LoaderTotal ==
    IsLoaded =>
        /\ response.code = 200
        /\ csv_file.kind # "ok" => response.body = << >>
        /\ csv_file.kind = "ok" =>
              /\ DOMAIN response.body
                     = {csv_file.rows[i].user_id : i \in DOMAIN csv_file.rows}
              /\ \A i \in DOMAIN csv_file.rows :
                    (\A j \in DOMAIN csv_file.rows :
                        j > i => csv_file.rows[j].user_id # csv_file.rows[i].user_id)
                        => response.body[csv_file.rows[i].user_id]
                               = csv_file.rows[i].country

\* A file that names one user twice, with two countries.
C24_Witness ==
    /\ IsLoaded
    /\ csv_file.kind = "ok"
    /\ Len(csv_file.rows) = 2
    /\ csv_file.rows[1].user_id = csv_file.rows[2].user_id
    /\ csv_file.rows[1].country # csv_file.rows[2].country
    /\ Cardinality(DOMAIN response.body) = 1

\* The successful transactions that pass the filters of an analytics request.
SuccessfulInTrend ==
    Successful(Matching(store, response.req.start_date, response.req.end_date,
                        response.req.status_filter, response.req.type_filter))

\* The successful transactions that pass the filters of a /report/ request.
SuccessfulInReport == Successful(ReportMatching)

\* A bucket is made of the given transactions only: there is one, and the
\* total of the bucket is their total.
MadeOf(bucket, rows) ==
    /\ rows # {}
    /\ bucket.total_amount = SumOver(store, rows)

\* C25: the transactions counted in a bucket of get_daily_trends, of
\* _get_daily_breakdown and of get_monthly_comparison are successful ones,
\* for every value of the status filter; with the status filter "failed" no
\* failed transaction is counted.
C25_BucketsSuccessfulOnly ==
    /\ IsTrends =>
          \A i \in DOMAIN response.body :
              MadeOf(response.body[i],
                     {r \in SuccessfulInTrend :
                         r.transaction_date = response.body[i].date.day})
    /\ IsBreakdown =>
          \A i \in DOMAIN response.body.daily_breakdown :
              MadeOf(response.body.daily_breakdown[i],
                     {r \in SuccessfulInReport :
                         r.transaction_date
                             = response.body.daily_breakdown[i].date.day})
    /\ IsMonthly =>
          \A i \in DOMAIN response.body :
              MadeOf(response.body[i],
                     {r \in SuccessfulInTrend :
                         /\ YearOf(r.transaction_date) = response.body[i].year
                         /\ MonthOf(r.transaction_date) = response.body[i].month})

\* The part of C25 that holds: the buckets of _get_daily_breakdown.
BreakdownSuccessfulOnly ==
    IsBreakdown =>
        \A i \in DOMAIN response.body.daily_breakdown :
            MadeOf(response.body.daily_breakdown[i],
                   {r \in SuccessfulInReport :
                       r.transaction_date
                           = response.body.daily_breakdown[i].date.day})

\* The buckets of the two analytics methods hold the transactions of the
\* status the filter names, the successful ones for "all".
TrendBucketsFollowStatusFilter ==
    LET wanted == IF response.req.status_filter = "all" THEN "successful"
                  ELSE response.req.status_filter
        rows == Matching(store, response.req.start_date, response.req.end_date,
                         wanted, response.req.type_filter)
    IN  /\ IsTrends =>
              \A i \in DOMAIN response.body :
                  MadeOf(response.body[i],
                         {r \in rows :
                             r.transaction_date = response.body[i].date.day})
        /\ IsMonthly =>
              \A i \in DOMAIN response.body :
                  MadeOf(response.body[i],
                         {r \in rows :
                             /\ YearOf(r.transaction_date) = response.body[i].year
                             /\ MonthOf(r.transaction_date) = response.body[i].month})

\* The tables the daily sequences are computed from.
TrendStores ==
    TablesUpTo(TrendRows, MaxTx) \cup TablesUpTo(TrendCountRows, MaxTrendCountTx)

\* Some table and some filter make get_daily_trends return a bucket whose
\* amount change is defined or not as a says and whose count change is
\* defined or not as c says.
Outcome(a, c) ==
    \E db \in TrendStores, req \in TrendRequests :
        LET r == get_daily_trends(db, req)
        IN  /\ r.code = 200
            /\ \E i \in DOMAIN r.body :
                  /\ r.body[i].amount_change_percent.defined = a
                  /\ r.body[i].count_change_percent.defined = c

\* C26 as stated: both mixed outcomes occur in get_daily_trends, a bucket
\* with a defined amount change and an undefined count change for some table
\* and filter, and a bucket with an undefined amount change and a defined
\* count change for some table and filter.
C26_BothMixedOutcomes == Outcome(TRUE, FALSE) /\ Outcome(FALSE, TRUE)

\* C26: each change field of a bucket of get_daily_trends is decided by its
\* own previous value, the amount change by the previous total and the count
\* change by the previous count; a previous bucket counts at least one
\* transaction, so every bucket after the first has a defined count change
\* and a bucket with a defined amount change never has an undefined count
\* change.
C26_ChangesDecidedSeparately ==
    IsTrends =>
        \A i \in DOMAIN response.body :
            LET b == response.body
            IN  /\ b[i].amount_change_percent.defined
                      <=> (i > 1 /\ b[i - 1].total_amount > 0)
                /\ b[i].count_change_percent.defined <=> i > 1
                /\ b[i].amount_change_percent.defined
                      => b[i].count_change_percent.defined

\* The mixed outcome that occurs: after a day of total 0 the amount change is
\* undefined and the count change defined.
C26_Witness ==
    /\ IsTrends
    /\ \E i \in DOMAIN response.body :
          /\ ~response.body[i].amount_change_percent.defined
          /\ response.body[i].count_change_percent.defined

\* The names a percent-change field goes by in the daily buckets.
ChangeKeys == {"percent_change", "amount_change_percent", "count_change_percent"}

\* C27: every bucket after the first of the list get_monthly_comparison
\* returns carries a percent-change field against the previous month, a
\* number or an explicit None, as the daily buckets do.
C27_MonthlyChangeField ==
    IsMonthly =>
        \A i \in DOMAIN response.body :
            i > 1 => DOMAIN response.body[i] \cap ChangeKeys # {}

\* The fields of a monthly bucket.
MonthlyBucketFields ==
    IsMonthly =>
        \A i \in DOMAIN response.body :
            DOMAIN response.body[i] =
                {"period", "year", "month", "transaction_count", "total_amount",
                 "average_amount"}

\* C28: in get_daily_trends and _get_daily_breakdown a bucket whose previous
\* bucket has a non-zero total carries a defined amount change, also when
\* that total is negative.
C28_ChangeDefinedAfterNonZero ==
    /\ IsTrends =>
          \A i \in DOMAIN response.body :
              (i > 1 /\ response.body[i - 1].total_amount # 0)
                  => response.body[i].amount_change_percent.defined
    /\ IsBreakdown =>
          \A i \in DOMAIN response.body.daily_breakdown :
              (i > 1 /\ response.body.daily_breakdown[i - 1].total_amount # 0)
                  => response.body.daily_breakdown[i].percent_change.defined

\* What the two loops do: the amount change is defined exactly after a
\* bucket of positive total.
ChangeDefinedAfterPositive ==
    /\ IsTrends =>
          \A i \in DOMAIN response.body :
              response.body[i].amount_change_percent.defined
                  <=> (i > 1 /\ response.body[i - 1].total_amount > 0)
    /\ IsBreakdown =>
          \A i \in DOMAIN response.body.daily_breakdown :
              response.body.daily_breakdown[i].percent_change.defined
                  <=> (i > 1 /\ response.body.daily_breakdown[i - 1].total_amount > 0)

\* A /report/by-country request outside the documented parameters: a date
\* string not in YYYY-MM-DD form, start after end, or a status, type or
\* sort_by outside its set.
InvalidCountryRequest(req) ==
    \/ req.start_date.form \notin {"none", "iso"}
    \/ req.end_date.form \notin {"none", "iso"}
    \/ RangeStart(req) > RangeEnd(req)
    \/ req.status \notin FilterStatuses
    \/ req.type \notin FilterTypes
    \/ req.sort_by \notin SortKeys

\* A /report/by-country request one of the handler's checks refuses.
RefusedCountryRequest(req) ==
    \/ req.start_date.form = "malformed"
    \/ req.end_date.form = "malformed"
    \/ RangeStart(req) > RangeEnd(req)
    \/ req.status \notin FilterStatuses
    \/ req.type \notin FilterTypes
    \/ req.sort_by \notin SortKeys

\* C29: /report/by-country checks the date format, the date range, status,
\* type and sort_by before it loads the mapping and queries the table, so an
\* invalid request that meets an unavailable mapping ends in the 400 of the
\* validation and never in the 500 of the mapping, and in neither failure is
\* the table read.
C29_ValidationBeforeMapping ==
    (/\ response.op = "by-country"
     /\ InvalidCountryRequest(response.req)
     /\ MappingEmpty) =>
        /\ response.code = 400
        /\ response = get_country_report(EmptyTable, csv_file, Today, response.req)

\* The order of the checks as the handler has it: with an unavailable
\* mapping a refused request ends in 400 and every other request in the 500
\* of the mapping, and the answer is the one given over the empty table.
RefusedBeforeMapping ==
    (response.op = "by-country" /\ MappingEmpty) =>
        /\ RefusedCountryRequest(response.req) => response.code = 400
        /\ ~RefusedCountryRequest(response.req) =>
              /\ response.code = 500
              /\ response.detail = "Could not load user-country data"
        /\ response = get_country_report(EmptyTable, csv_file, Today, response.req)

\* The countries of the mapped matching transactions.
CountriesFound ==
    {load_user_countries(csv_file)[r.user_id] : r \in MappedMatching}

\* The mapped matching transactions of one country.
OfCountry(c) ==
    {r \in MappedMatching : load_user_countries(csv_file)[r.user_id] = c}

\* The value of the sort key of a country, from the table.
CountryKey(sort_by, c) ==
    IF sort_by = "count" THEN CountOver(store, OfCountry(c))
    ELSE IF sort_by = "total" THEN SumOver(store, OfCountry(c))
    ELSE RoundDiv(SumOver(store, OfCountry(c)), CountOver(store, OfCountry(c)))

\* C30: in a country report that lists a country, summary.total_countries,
\* total_transactions and total_amount are figures of the countries returned
\* after the top_n cut, so they are at most the figures of overall_stats and
\* equal them exactly when top_n is at least the number of countries found;
\* summary.top_performer is the first country returned, one of greatest sort
\* key among the countries found.
C30_SummaryCoversReturned ==
    (IsCountryReport /\ response.body.countries # << >>) =>
        LET countries == response.body.countries
            summary == response.body.summary
            overall == summary.overall_stats
            returned == {countries[i].country : i \in DOMAIN countries}
            rows == UNION {OfCountry(c) : c \in returned}
            all == response.req.top_n >= Cardinality(CountriesFound)
        IN  /\ summary.total_countries = Cardinality(returned)
            /\ summary.total_countries = Len(countries)
            /\ summary.total_transactions = CountOver(store, rows)
            /\ summary.total_amount = SumOver(store, rows)
            /\ overall.total_countries_found = Cardinality(CountriesFound)
            /\ summary.total_countries <= overall.total_countries_found
            /\ summary.total_transactions <= overall.total_transactions_all
            /\ summary.total_countries = overall.total_countries_found <=> all
            /\ summary.total_transactions = overall.total_transactions_all <=> all
            /\ summary.top_performer = countries[1].country
            /\ \A c \in CountriesFound :
                  CountryKey(response.req.sort_by, c)
                      <= CountryKey(response.req.sort_by, summary.top_performer)

\* Two countries are found and one is returned: the summary counts fewer
\* transactions than overall_stats.
C30_Witness ==
    /\ IsCountryReport
    /\ Len(response.body.countries) = 1
    /\ Cardinality(CountriesFound) = 2
    /\ response.body.summary.total_transactions
           < response.body.summary.overall_stats.total_transactions_all

====
